---- MODULE Spec2Model ----
(***************************************************************************)
(* A model of the ss.ge real-estate scraper: the paginated-fetch           *)
(* orchestrator (services/scraper.py), the durable store                   *)
(* (utils/file_utils.py), the pagination oracle                            *)
(* (utils/pagination_utils.py), the fan-out driver with its rate limiter,  *)
(* workers and merge (services/multiprocessing_scraper.py), the page       *)
(* fetcher with the session's transport (services/scraper.py) and the      *)
(* response cache (utils/cache_utils.py).                                  *)
(*                                                                         *)
(* Python values are modelled as follows.  An optional value (None or a    *)
(* value, a dictionary key that may be missing, a file that may not exist) *)
(* is a sequence of length 0 or 1.  A list is a sequence, a set is a set.  *)
(***************************************************************************)
EXTENDS Integers, Sequences, FiniteSets, TLC

\* ------------------------------------------------------------------ bounds
\* The pages of the model are FirstPage .. FirstPage + NumPages - 1.
FirstPage == 21
NumPages == 3
\* The upstream returns 0 .. MaxItems records on a page.
MaxItems == 1
\* batch_size is drawn from 1 .. MaxBatch.
MaxBatch == 2
\* The fan-out driver partitions ranges of the pages 1 .. MaxRangePage over
\* 1 .. MaxWorkers workers.
MaxRangePage == 8
MaxWorkers == 3
\* The rate limiter: NumCallers processes call wait(), the clock runs from
\* 0 .. MaxInterval up to MaxClock ticks, min_interval is 1 .. MaxInterval
\* ticks (rate_limit = 1 / min_interval requests a tick) or rate_limit is 0;
\* at most MaxCalls calls of wait() are made.
NumCallers == 2
MaxCalls == 3
MaxInterval == 2
MaxClock == 6
\* A single call of fetch_page_data is given a max_retries of 0 .. MaxBudget.
MaxBudget == 2
\* The records of the workers carry an applicationId of 0 .. MaxId.
MaxId == 1
\* merge_property_lists is given lists of up to MaxList records.
MaxList == 3
\* The clock of the cache directory is moved at most MaxClockMoves times.
MaxClockMoves == 3
\* The hash seed of a process is one of 0 .. MaxSeed.
MaxSeed == 1
\* meta.currentPage and meta.totalPages are in 1 .. MaxTotal.
MaxTotal == 2
\* NumSweepers workers start together on a cache directory of up to
\* NumCacheFiles entries.
NumSweepers == 2
NumCacheFiles == 2

\* ---------------------------------------------------- program constants
CHECKPOINT_INTERVAL == 22
MAX_RETRIES == 3
DEFAULT_END_PAGE == 15972

LastPage == FirstPage + NumPages - 1
Pages == FirstPage .. LastPage

\* ------------------------------------------------------ optional values
None == <<>>
Some(v) == <<v>>
IsNone(o) == Len(o) = 0
IsSome(o) == Len(o) > 0
Get(o) == o[1]

Max(a, b) == IF a >= b THEN a ELSE b
Min(a, b) == IF a <= b THEN a ELSE b

\* ------------------------------------------------------------- upstream
\* A property record of page p; the orchestrator never looks inside one.
PropertyRecord(p, i) == [applicationId |-> 10 * p + i]
PageItems(p, n) == [i \in 1 .. n |-> PropertyRecord(p, i)]

\* The "meta" object of a response body: each key may be missing.
Meta(isLast, cur, total) == [isLastPage |-> isLast, currentPage |-> cur, totalPages |-> total]
\* A JSON response body: the item list and the meta object may be missing.
Body(items, meta) == [realStateItemModel |-> items, meta |-> meta]

\* One attempt's outcome as requests.Session.post delivers it: an exception
\* ("timeout", "connection", "other") or a status with a body that parses
\* as JSON or not.
Response(exc, status, json_ok, body) ==
    [exc |-> exc, status |-> status, json_ok |-> json_ok, body |-> body]
Http(status) == Response("none", status, FALSE, Body(None, None))
Ok(body) == Response("none", 200, TRUE, body)
Raised(exc) == Response(exc, 0, FALSE, Body(None, None))

\* ---------------------------------------------------- pagination oracle
\* Line 67 (and the variant that needs the total to be passed).
CurrentAtTotalStrict(current_page, total_pages) == current_page > total_pages
CurrentAtTotal(current_page, total_pages) == current_page >= total_pages
\* is_last_page (and, first, the variant without the test of the item list).
IsLastPageMetaOnly(api_response) ==
    IF IsSome(api_response.meta) /\ IsSome(Get(api_response.meta).isLastPage)
    THEN Get(Get(api_response.meta).isLastPage)
    ELSE IF /\ IsSome(api_response.meta)
            /\ IsSome(Get(api_response.meta).currentPage)
            /\ IsSome(Get(api_response.meta).totalPages)
    THEN CurrentAtTotal(Get(Get(api_response.meta).currentPage),
                        Get(Get(api_response.meta).totalPages))
    ELSE FALSE
\* The variant that consults the page numbers before the flag.
IsLastPageNumbersFirst(api_response) ==
    IF IsSome(api_response.realStateItemModel)
       /\ Len(Get(api_response.realStateItemModel)) = 0
    THEN TRUE
    ELSE IF /\ IsSome(api_response.meta)
            /\ IsSome(Get(api_response.meta).currentPage)
            /\ IsSome(Get(api_response.meta).totalPages)
    THEN CurrentAtTotal(Get(Get(api_response.meta).currentPage),
                        Get(Get(api_response.meta).totalPages))
    ELSE IF IsSome(api_response.meta) /\ IsSome(Get(api_response.meta).isLastPage)
    THEN Get(Get(api_response.meta).isLastPage)
    ELSE FALSE
IsLastPage(api_response) ==
    IF IsSome(api_response.realStateItemModel)
       /\ Len(Get(api_response.realStateItemModel)) = 0
    THEN TRUE
    ELSE IF IsSome(api_response.meta) /\ IsSome(Get(api_response.meta).isLastPage)
    THEN Get(Get(api_response.meta).isLastPage)
    ELSE IF /\ IsSome(api_response.meta)
            /\ IsSome(Get(api_response.meta).currentPage)
            /\ IsSome(Get(api_response.meta).totalPages)
    THEN CurrentAtTotal(Get(Get(api_response.meta).currentPage),
                        Get(Get(api_response.meta).totalPages))
    ELSE FALSE

\* -------------------------------------------------------- durable store
\* A document on disk is None (no file) or Some(content).
\* load_checkpoint (and the variant that never reads the document).
LoadCheckpointIgnored(file) == 0
LoadCheckpoint(file) == IF IsSome(file) THEN Get(file).last_page ELSE 0
SaveCheckpoint(page) == Some([last_page |-> page])
\* (and the variant that starts from an empty list whatever the document holds)
LoadPropertiesIgnored(file) == <<>>
LoadProperties(file) == IF IsSome(file) THEN Get(file) ELSE <<>>
SaveProperties(properties) == Some(properties)

RECURSIVE SortedList(_)
SortedList(S) ==
    IF S = {} THEN <<>>
    ELSE LET m == CHOOSE x \in S : \A y \in S : x <= y
         IN <<m>> \o SortedList(S \ {m})
SaveFailedPages(failed) ==
    Some([failed_pages |-> SortedList(failed), count |-> Cardinality(failed)])

\* --------------------------------------------------------- page fetcher
\* dict.get("realStateItemModel", [])
ItemsOf(data) ==
    IF IsSome(data.realStateItemModel) THEN Get(data.realStateItemModel) ELSE <<>>

\* What fetch_page_data hands back, with the token and the cache it leaves
\* behind and what it did on the way: body is the response body the result
\* was read from, posts the number of page requests issued, auth_gets the
\* number of token requests issued, cache_hit whether the cache answered.
FetchReturn(result, need_refresh, is_last, tok, cch, body, posts, auth_gets, hit) ==
    [result |-> result, need_refresh |-> need_refresh, is_last |-> is_last,
     token |-> tok, cache |-> cch, body |-> body, posts |-> posts,
     auth_gets |-> auth_gets, cache_hit |-> hit]

\* Line 188: the statuses that ask for a new token (and the variant that
\* knows 401 only).
AuthStatusesOnly401 == {401}
AuthStatuses == {401, 403}

\* The truth value of a dictionary, as line 126 tests it (first, the variant
\* that tests the item list of the dictionary).
DictTruthyItems(data) ==
    IsSome(data.realStateItemModel) /\ Len(Get(data.realStateItemModel)) > 0
\* The truth value of a dictionary: it has a key.
DictTruthy(data) == IsSome(data.realStateItemModel) \/ IsSome(data.meta)

\* Line 166, the test of the response structure (and the variant that takes
\* every JSON body).
ValidStructureAny(response_data) == TRUE
ValidStructure(response_data) == IsSome(response_data.realStateItemModel)

\* The attempt loop of fetch_page_data: responses[retry_count + 1] answers
\* the attempt made with retry_count retries behind it.
RECURSIVE FetchAttempts(_, _, _, _, _, _, _, _)
FetchAttempts(page, max_retries, check_last_page, tok, use_c, cch, responses, retry_count) ==
    IF retry_count >= max_retries
    THEN FetchReturn(None, FALSE, FALSE, tok, cch, None, retry_count, 0, FALSE)
    ELSE LET r == responses[retry_count + 1]
             again == FetchAttempts(page, max_retries, check_last_page, tok, use_c,
                                    cch, responses, retry_count + 1)
         IN IF r.exc # "none" THEN again
            ELSE IF r.status = 200
            THEN IF ~r.json_ok THEN again
                 ELSE IF ~ValidStructure(r.body) THEN again
                 ELSE FetchReturn(Some(ItemsOf(r.body)), FALSE,
                                  IF check_last_page THEN IsLastPage(r.body) ELSE FALSE,
                                  tok,
                                  IF use_c THEN [cch EXCEPT ![page] = Some(r.body)] ELSE cch,
                                  Some(r.body), retry_count + 1, 0, FALSE)
            ELSE IF r.status \in AuthStatuses
            THEN FetchReturn(None, TRUE, FALSE, tok, cch, None, retry_count + 1, 0, FALSE)
            ELSE again

\* fetch_page_data.  cache_live: the cache file of the page, if there is
\* one, is younger than CACHE_EXPIRY and readable.  new_token: what
\* get_auth_token returns if the fetcher calls it.
FetchPageData(page, max_retries, check_last_page, tok, use_c, cch, cache_live, new_token, responses) ==
    LET cached_data == IF IsSome(cch[page]) /\ cache_live THEN cch[page] ELSE None
    IN IF use_c /\ IsSome(cached_data) /\ DictTruthy(Get(cached_data))
       THEN FetchReturn(Some(ItemsOf(Get(cached_data))), FALSE,
                        IF check_last_page THEN IsLastPage(Get(cached_data)) ELSE FALSE,
                        tok, cch, cached_data, 0, 0, TRUE)
       ELSE IF IsNone(tok) /\ IsNone(new_token)
       THEN FetchReturn(None, FALSE, FALSE, None, cch, None, 0, 1, FALSE)
       ELSE LET t == IF IsNone(tok) THEN new_token ELSE tok
                f == FetchAttempts(page, max_retries, check_last_page, t, use_c, cch,
                                   responses, 0)
            IN [f EXCEPT !.auth_gets = IF IsNone(tok) THEN 1 ELSE 0]

\* ------------------------------------------------------------ the state
VARIABLES
    \* the documents on disk and the response cache (page -> optional body)
    checkpoint_file, data_file, failed_file, cache,
    \* RealEstateScraper: self.token, self.use_cache
    token, use_cache,
    \* scrape_properties: its position, arguments and locals
    pc, start_page, end_page, batch_size, retry_failed, detect_last_page,
    last_page, all_properties, current_batch, failed_pages, current_page,
    reached_last_page, ret,
    \* history of the current run: the last_page of the checkpoint document
    \* when the run started (0: no document), the page of its first call of
    \* fetch_page_data (0: none yet), and what the latest pass of the loop
    \* did: its page, its calls of fetch_page_data in order, and the results
    \* of its token refreshes in order
    resumed_from, first_fetched, iteration,
    \* and whether the run called get_auth_token before its loop, and the
    \* records its calls of fetch_page_data returned, in the order of the calls
    token_asked, run_items,
    \* the environment: whether a write of the documents can raise OSError;
    \* a faulty disk fails one write and none after it
    disk_faulty,
    \* scrape_with_multiprocessing: its position, arguments and the locals
    \* of the partition loop
    mp_pc, mp_start_page, mp_end_page, num_workers, worker_index, ranges,
    \* the workers of the pool: what each worker's call ended with (None: it
    \* has not ended), the first worker to end (0: none yet); the document
    \* all_properties_combined.json and what scrape_with_multiprocessing
    \* returned
    outcomes, first_finished, combined_file, mp_ret,
    \* RateLimiter: self.interval, self.last_request, the holder of self.lock
    \* (0: free); the clock time.time() reads; each caller's position in
    \* wait() and its locals; history: the values written to last_request
    interval, last_request, lock, now, caller_pc, sleep_until, grants,
    \* a single call of fetch_page_data, direct or through the rate-limited
    \* wrapper of a fan-out worker, on the scraper's token and cache: whether
    \* the call is still to be made, and what it was given and did
    fetch_pc, fetched,
    \* a single call of merge_property_lists(L, L): whether it is still to be
    \* made, L and the list returned
    merge_pc, merge_list, merged,
    \* the cache directory on its own: the file of each key (None: no file),
    \* the clock time.time() and the files' mtime are read from, the number of
    \* times the clock was moved; history: what was last saved under each key
    \* and when, and the latest call of get_from_cache: its key, its time, what
    \* had last been saved under the key, and what it returned
    cache_files, cache_clock, cache_steps, cache_saved, cache_got,
    \* two calls of get_cache_key, each in a process of its own: whether they
    \* are still to be made, the page, the parameters and the hash seed of the
    \* process of each, and the keys returned
    key_pc, key_calls, keys,
    \* a single call of is_last_page: whether it is still to be made, the
    \* response body it is given and what it returned
    oracle_pc, api_response, oracle_ret,
    \* a call of main.retry_failed_pages: its position, the failed-pages
    \* document, and its locals with the history of the call
    retry_pc, retry_file, retry,
    \* the cache directory the workers of a fan-out run share when they start:
    \* the mtime of each entry (None: no such file), the clock, and each
    \* worker's call of clear_expired_cache: its position, its locals and
    \* the paths its listing still has to visit
    sweep_dir, sweep_clock, sweeps

disk == <<checkpoint_file, data_file, failed_file>>
args == <<start_page, end_page, batch_size, retry_failed, detect_last_page>>
locals == <<last_page, all_properties, current_batch, failed_pages, current_page,
            reached_last_page>>
history == <<resumed_from, first_fetched, iteration, token_asked, run_items>>
orchestrator == <<disk, disk_faulty, cache, token, use_cache, pc, args, locals, ret, history>>
pool == <<outcomes, first_finished, combined_file, mp_ret>>
driver == <<mp_pc, mp_start_page, mp_end_page, num_workers, worker_index, ranges, pool>>
limiter == <<interval, last_request, lock, now, caller_pc, sleep_until, grants>>
fetcher == <<fetch_pc, fetched>>
merger == <<merge_pc, merge_list, merged>>
cache_dir == <<cache_files, cache_clock, cache_steps, cache_saved, cache_got>>
keyer == <<key_pc, key_calls, keys>>
oracle == <<oracle_pc, api_response, oracle_ret>>
retrier == <<retry_pc, retry_file, retry>>
sweeper == <<sweep_dir, sweep_clock, sweeps>>
functions == <<keyer, oracle, retrier, sweeper>>
units == <<fetcher, merger, cache_dir, functions>>
vars == <<orchestrator, driver, limiter, units>>

\* ret: None while the call has not returned; then the returned value,
\* itself None (Python's None) or a list.
ReturnedNone == Some(None)
ReturnedList(l) == Some(Some(l))

\* ------------------------------------------------------ inputs of a run
AuthResults == {None, Some("tok")}
BatchSizes == 1 .. MaxBatch
EndPageArgs == {None} \cup {Some(p) : p \in Pages}
Metas == {None, Some(Meta(Some(TRUE), None, None))}
PageBodies(p) ==
    {Body(Some(<<>>), None)}
    \cup {Body(Some(PageItems(p, n)), m) : n \in 1 .. MaxItems, m \in Metas}
PageResponses(p) ==
    {Ok(b) : b \in PageBodies(p)} \cup {Ok(Body(None, None)), Http(401), Http(501)}
\* The answers of the upstream to the attempts of one call: one response of
\* the page, first or last, among timeouts.
Scripts(p) ==
    {[i \in 1 .. MAX_RETRIES |-> IF i = k THEN r ELSE Raised("timeout")] :
        r \in PageResponses(p), k \in {1, MAX_RETRIES}}
CacheLive(p) == IF use_cache /\ IsSome(cache[p]) THEN BOOLEAN ELSE {FALSE}
NewTokens == IF IsNone(token) THEN AuthResults ELSE {None}

\* A call of fetch_page_data as the history keeps it.
Call(f) ==
    [result |-> f.result, need_refresh |-> f.need_refresh, is_last |-> f.is_last,
     body |-> f.body, cache_hit |-> f.cache_hit, auth_gets |-> f.auth_gets]
Iteration(page, calls, refreshes) == [page |-> page, calls |-> calls, refreshes |-> refreshes]
NoIteration == Iteration(0, <<>>, <<>>)
\* The last_page a checkpoint document holds, 0 if there is no document.
OnDisk(file) == IF file = <<>> THEN 0 ELSE file[1].last_page

\* ----------------------------------------------------------------- Init
\* No documents on disk, no scraper yet.  use_cache is the command line's
\* default (--use-cache not given).
FreshScraper ==
    /\ checkpoint_file = None /\ data_file = None /\ failed_file = None
    /\ cache = [p \in Pages |-> None]
    /\ token = None
    /\ use_cache = FALSE
    /\ pc = "idle"
    /\ start_page = FirstPage /\ end_page = FirstPage /\ batch_size = 1
    /\ retry_failed = FALSE /\ detect_last_page = FALSE
    /\ last_page = 0 /\ all_properties = <<>> /\ current_batch = <<>>
    /\ failed_pages = {} /\ current_page = 0 /\ reached_last_page = FALSE
    /\ ret = None
    /\ resumed_from = 0 /\ first_fetched = 0 /\ iteration = NoIteration
    /\ token_asked = FALSE /\ run_items = <<>>
\* Every write of a document succeeds.
OrchestratorInit == FreshScraper /\ disk_faulty = FALSE

\* The test of the while loop, line 296 (and the variant that stops one
\* page short).
WhileTestOffByOne(cur, endp, reached) == cur < endp /\ ~reached
WhileTest(cur, endp, reached) == cur <= endp /\ ~reached
\* Line 293: the page the loop starts on (and the variant that starts on
\* start_page whatever the checkpoint).
ResumePageFromStart(lp, sp) == sp
ResumePage(lp, sp) == Max(lp + 1, sp)
\* Line 343 (and the variant that leaves the page counter alone).
NextPageStuck(p) == p
NextPage(p) == p + 1

\* Line 279 (and the variant that goes on when the checkpoint is on end_page).
AlreadyFinishedStrict(lp, ep) == lp > ep
AlreadyFinished(lp, ep) == lp >= ep

\* scrape_properties, lines 261-294: load the progress, settle end_page,
\* return if finished, get a token, set up the loop.
StartRun(sp, ep_arg, bs, rf, dlp, estimate, new_token) ==
    /\ pc = "idle"
    /\ LET lp == LoadCheckpoint(checkpoint_file)
           props == LoadProperties(data_file)
           ep == IF IsSome(ep_arg) THEN Get(ep_arg)
                 ELSE IF dlp THEN estimate ELSE DEFAULT_END_PAGE
           cur == ResumePage(lp, sp)
       IN /\ start_page' = sp /\ end_page' = ep /\ batch_size' = bs
          /\ retry_failed' = rf /\ detect_last_page' = dlp
          /\ last_page' = lp /\ all_properties' = props
          /\ current_batch' = <<>> /\ failed_pages' = {}
          /\ reached_last_page' = FALSE
          /\ resumed_from' = OnDisk(checkpoint_file)
          /\ first_fetched' = 0 /\ iteration' = NoIteration /\ run_items' = <<>>
          /\ IF AlreadyFinished(lp, ep)
             THEN /\ pc' = "done" /\ ret' = ReturnedList(props)
                  /\ current_page' = 0 /\ token' = token /\ token_asked' = FALSE
             ELSE IF IsNone(new_token)
             THEN /\ pc' = "done" /\ ret' = ReturnedList(props)
                  /\ current_page' = 0 /\ token' = None /\ token_asked' = TRUE
             ELSE /\ token' = new_token /\ ret' = None /\ token_asked' = TRUE
                  /\ current_page' = cur
                  /\ pc' = IF WhileTest(cur, ep, FALSE) THEN "loop" ELSE "final"
    /\ UNCHANGED <<disk, disk_faulty, cache, use_cache, driver, limiter, units>>

\* Line 334: a checkpoint cycle is due (and the variant without the test of
\* the page number).
SaveDueBatchOnly(batch, bs, page) == Len(batch) >= bs
SaveDue(batch, bs, page) == Len(batch) >= bs \/ page % CHECKPOINT_INTERVAL = 0

\* The writes of a save in the order of lines 336-338 and 350-352 (and the
\* variant that writes the checkpoint first).
SaveOrderCheckpointFirst == <<"checkpoint", "data", "failed">>
SaveOrder == <<"data", "checkpoint", "failed">>
\* The write of a save that raises OSError, 0 if none does; no write is
\* under a try, so the writes before it are done and those after it are not.
Faults == IF disk_faulty THEN 0 .. Len(SaveOrder) ELSE {0}
Written(doc, fault) ==
    fault = 0 \/ \E i \in 1 .. Len(SaveOrder) : SaveOrder[i] = doc /\ i < fault

\* Lines 316-346: what one pass of the loop does with the fetch it settled
\* on, f; tok is self.token at that point.  A write that raises ends the
\* call of scrape_properties with the exception.
LoopBody(f, tok, calls, refreshes, fault) ==
    LET truthy == IsSome(f.result) /\ Len(Get(f.result)) > 0
        empty_hit == truthy /\ Len(Get(f.result)) = 0 /\ detect_last_page
        extend == truthy /\ ~empty_hit
        reached == reached_last_page \/ f.is_last \/ empty_hit
        batch == IF extend THEN current_batch \o Get(f.result) ELSE current_batch
        props == IF extend THEN all_properties \o Get(f.result) ELSE all_properties
        failed == IF truthy THEN failed_pages ELSE failed_pages \cup {current_page}
        save == SaveDue(batch, batch_size, current_page)
        raises == save /\ fault > 0
    IN /\ all_properties' = props
       /\ failed_pages' = failed
       /\ reached_last_page' = reached
       /\ current_batch' = IF save /\ ~raises THEN <<>> ELSE batch
       /\ data_file' = IF save /\ Written("data", fault)
                        THEN SaveProperties(props) ELSE data_file
       /\ checkpoint_file' = IF save /\ Written("checkpoint", fault)
                              THEN SaveCheckpoint(current_page) ELSE checkpoint_file
       /\ failed_file' = IF save /\ Written("failed", fault)
                          THEN SaveFailedPages(failed) ELSE failed_file
       /\ current_page' = IF raises THEN current_page ELSE NextPage(current_page)
       /\ pc' = IF raises THEN "raised"
                ELSE IF WhileTest(NextPage(current_page), end_page, reached)
                THEN "loop" ELSE "final"
       /\ token' = tok /\ cache' = f.cache
       /\ iteration' = Iteration(current_page, calls, refreshes)
       /\ first_fetched' = IF first_fetched = 0 THEN current_page ELSE first_fetched
       /\ run_items' = IF IsSome(f.result) THEN run_items \o Get(f.result) ELSE run_items
       /\ disk_faulty' = (disk_faulty /\ ~raises)
       /\ UNCHANGED <<resumed_from, token_asked>>
       /\ ret' = None

\* Lines 309-311: the refresh gave no token, the loop is left by break.
LoopBreak(f, calls, refreshes) ==
    /\ pc' = "final"
    /\ token' = None /\ cache' = f.cache
    /\ iteration' = Iteration(current_page, calls, refreshes)
    /\ first_fetched' = IF first_fetched = 0 THEN current_page ELSE first_fetched
    /\ run_items' = IF IsSome(f.result) THEN run_items \o Get(f.result) ELSE run_items
    /\ UNCHANGED <<disk, disk_faulty, locals, ret, resumed_from, token_asked>>

\* One pass of the while loop, lines 296-346.
LoopStep ==
    /\ pc = "loop"
    /\ current_page \in Pages
    /\ \E s1 \in Scripts(current_page), live1 \in CacheLive(current_page), nt1 \in NewTokens,
          fault \in Faults :
        LET f1 == FetchPageData(current_page, MAX_RETRIES, detect_last_page, token,
                                use_cache, cache, live1, nt1, s1)
        IN IF f1.need_refresh
           THEN \E refreshed \in AuthResults :
                   IF IsNone(refreshed)
                   THEN LoopBreak(f1, <<Call(f1)>>, <<refreshed>>)
                   ELSE \E s2 \in Scripts(current_page), live2 \in CacheLive(current_page) :
                        LET f2 == FetchPageData(current_page, MAX_RETRIES, detect_last_page,
                                                refreshed, use_cache, f1.cache, live2,
                                                None, s2)
                        IN LoopBody(f2, f2.token, <<Call(f1), Call(f2)>>, <<refreshed>>,
                                    fault)
           ELSE LoopBody(f1, f1.token, <<Call(f1)>>, <<>>, fault)
    /\ UNCHANGED <<use_cache, args, last_page, driver, limiter, units>>

\* The page the final save records, line 351; the variant records the page
\* the loop stood on.
FinalCheckpointCurrent(cp, ep) == Min(cp, ep)
FinalCheckpoint(cp, ep) == Min(cp - 1, ep)

\* Lines 348-363: the final save, the end-page update and the return.
\* The retry of the failed pages is a comment in the source; the only
\* statement under "if retry_failed and failed_pages" is the return, and a
\* call that does not take it falls off the end of the function.
FinalSave ==
    /\ pc = "final"
    /\ \E fault \in Faults :
        LET save == Len(current_batch) > 0
            raises == save /\ fault > 0
        IN /\ data_file' = IF save /\ Written("data", fault)
                            THEN SaveProperties(all_properties) ELSE data_file
           /\ checkpoint_file' = IF save /\ Written("checkpoint", fault)
                                  THEN SaveCheckpoint(FinalCheckpoint(current_page, end_page))
                                  ELSE checkpoint_file
           /\ failed_file' = IF save /\ Written("failed", fault)
                              THEN SaveFailedPages(failed_pages) ELSE failed_file
           /\ end_page' = IF ~raises /\ reached_last_page /\ current_page < end_page
                          THEN current_page ELSE end_page
           /\ ret' = IF raises THEN None
                     ELSE IF retry_failed /\ failed_pages # {}
                     THEN ReturnedList(all_properties) ELSE ReturnedNone
           /\ pc' = IF raises THEN "raised" ELSE "done"
           /\ disk_faulty' = (disk_faulty /\ ~raises)
    /\ UNCHANGED <<cache, token, use_cache, start_page, batch_size, retry_failed,
                   detect_last_page, locals, history, driver, limiter, units>>

\* The process ends, killed during a run or after the call has returned: the
\* documents on disk and the cache stay, everything in memory is lost.
ProcessEnds ==
    /\ pc \in {"loop", "final", "done", "raised"}
    /\ pc' = "idle"
    /\ token' = None
    /\ last_page' = 0 /\ all_properties' = <<>> /\ current_batch' = <<>>
    /\ failed_pages' = {} /\ current_page' = 0 /\ reached_last_page' = FALSE
    /\ ret' = None
    /\ resumed_from' = 0 /\ first_fetched' = 0 /\ iteration' = NoIteration
    /\ token_asked' = FALSE /\ run_items' = <<>>
    /\ start_page' = FirstPage /\ end_page' = FirstPage /\ batch_size' = 1
    /\ retry_failed' = FALSE /\ detect_last_page' = FALSE
    /\ UNCHANGED <<disk, disk_faulty, cache, use_cache, driver, limiter, units>>

\* A call of scrape_properties on a fresh RealEstateScraper.  estimate is
\* what estimate_last_page returns when it is asked.
Start ==
    \E sp \in Pages, ep \in EndPageArgs, bs \in BatchSizes, rf \in BOOLEAN,
       dlp \in BOOLEAN, new_token \in AuthResults :
        \E estimate \in IF IsNone(ep) /\ dlp THEN Pages ELSE {0} :
            StartRun(sp, ep, bs, rf, dlp, estimate, new_token)

\* main.run_single_process, lines 119-128, with --end-page given and the
\* other options left alone: retry_failed is `not args.no_retry` and
\* detect_last_page is the default of scrape_properties.
RunSingleProcess ==
    \E ep \in Pages, bs \in BatchSizes, new_token \in AuthResults :
        StartRun(FirstPage, Some(ep), bs, TRUE, TRUE, 0, new_token)

\* --------------------------------------------------- the fan-out driver
DriverIdle ==
    /\ mp_pc = "idle" /\ mp_start_page = 1 /\ mp_end_page = 1 /\ num_workers = 1
    /\ worker_index = 0 /\ ranges = <<>>
    /\ outcomes = <<>> /\ first_finished = 0 /\ combined_file = None /\ mp_ret = None

\* scrape_with_multiprocessing is called: lines 173-178.
DriverInit ==
    /\ mp_pc = "partition"
    /\ mp_start_page \in 1 .. MaxRangePage
    /\ mp_end_page \in 1 .. MaxRangePage
    /\ num_workers \in 1 .. MaxWorkers
    /\ worker_index = 0 /\ ranges = <<>>
    /\ outcomes = <<>> /\ first_finished = 0 /\ combined_file = None /\ mp_ret = None

\* Lines 174-175.
PagesPerWorker(sp, ep, nw) == Max(1, (ep - sp + 1) \div nw)
\* Lines 180-181: the sub-range of worker i (0-based).
WorkerStart(sp, ep, nw, i) == sp + i * PagesPerWorker(sp, ep, nw)
WorkerEnd(sp, ep, nw, i) ==
    Min(ep, WorkerStart(sp, ep, nw, i) + PagesPerWorker(sp, ep, nw) - 1)

\* One pass of the loop of lines 179-185.
PartitionStep ==
    /\ mp_pc = "partition"
    /\ worker_index < num_workers
    /\ LET worker_start == WorkerStart(mp_start_page, mp_end_page, num_workers, worker_index)
           worker_end == WorkerEnd(mp_start_page, mp_end_page, num_workers, worker_index)
       IN ranges' = IF worker_start <= worker_end
                    THEN Append(ranges, [start |-> worker_start, end |-> worker_end])
                    ELSE ranges
    /\ worker_index' = worker_index + 1
    /\ mp_pc' = IF worker_index + 1 < num_workers THEN "partition" ELSE "partitioned"
    /\ UNCHANGED <<mp_start_page, mp_end_page, num_workers, pool, orchestrator, limiter, units>>

\* ------------------------------------------------ the merge of the lists
\* prop.get("applicationId"), and the truth value of an applicationId
\* (lines 131-132): 0 is false, like None and "".
AppId(prop) == prop.applicationId
Truthy(app_id) == app_id # 0

\* A dict is the sequence of its items in insertion order.  d[k] = v: the
\* value of a key that is there is replaced where it stands, a new key goes
\* to the end.
KeyIndex(d, k) == IF \E i \in 1 .. Len(d) : d[i].key = k
                  THEN CHOOSE i \in 1 .. Len(d) : d[i].key = k ELSE 0
DictSet(d, k, v) ==
    IF KeyIndex(d, k) # 0
    THEN [d EXCEPT ![KeyIndex(d, k)] = [key |-> k, value |-> v]]
    ELSE Append(d, [key |-> k, value |-> v])
DictValues(d) == [i \in 1 .. Len(d) |-> d[i].value]

\* The loops of lines 130-133 and 136-139.
RECURSIVE AddProps(_, _)
AddProps(merged_dict, list) ==
    IF Len(list) = 0 THEN merged_dict
    ELSE LET prop == Head(list)
             app_id == AppId(prop)
         IN AddProps(IF Truthy(app_id) THEN DictSet(merged_dict, app_id, prop)
                     ELSE merged_dict,
                     Tail(list))
MergePropertyLists(list1, list2) == DictValues(AddProps(AddProps(<<>>, list1), list2))

\* functools.reduce(function, sequence, initial), line 199.
RECURSIVE Reduce(_, _)
Reduce(sequence, acc) ==
    IF Len(sequence) = 0 THEN acc
    ELSE Reduce(Tail(sequence), MergePropertyLists(acc, Head(sequence)))

\* --------------------------------------------------- the fan-out workers
\* The parameters rate_limited_fetch can be called with by keyword (line 85
\* of multiprocessing_scraper.py) and the keywords scrape_properties calls
\* self.fetch_page_data with (scraper.py, lines 299-302 and 314).
RateLimitedFetchParams == {"page", "max_retries"}
FetchCallKeywords == {"check_last_page"}
\* A call with a keyword the function does not have raises TypeError.
Accepts(params, keywords) == keywords \subseteq params

\* The records of the data document of worker w: an applicationId of
\* 0 .. MaxId, the rest of the record tells the worker.
WorkerRecord(w, id) == [applicationId |-> id, price |-> w]
WorkerData(w) == {<<>>} \cup {<<WorkerRecord(w, id)>> : id \in 0 .. MaxId}

\* How a worker's call of scrape_with_rate_limit ended: by an exception or
\* by returning value; token: it asked for a token and got one.
Returned(value, tok) == [raised |-> FALSE, value |-> value, token |-> tok]
RaisedTypeError(tok) == [raised |-> TRUE, value |-> <<>>, token |-> tok]

\* scrape_with_rate_limit, lines 60-107, with scrape_properties(start_page,
\* end_page, batch_size=50, retry_failed=True) up to its first call of
\* self.fetch_page_data, which is rate_limited_fetch.  scraped: what
\* scrape_properties returns if it gets past its calls of the fetch.
ScrapeWithRateLimit(range, checkpoint_doc, data_doc, new_token, scraped) ==
    LET lp == LoadCheckpoint(checkpoint_doc)
        props == LoadProperties(data_doc)
    IN IF lp >= range.end THEN Returned(props, FALSE)
       ELSE IF IsNone(new_token) THEN Returned(props, FALSE)
       ELSE IF /\ WhileTest(ResumePage(lp, range.start), range.end, FALSE)
               /\ ~Accepts(RateLimitedFetchParams, FetchCallKeywords)
       THEN RaisedTypeError(TRUE)
       \* line 104: len(properties)
       ELSE IF IsNone(scraped) THEN RaisedTypeError(TRUE)
       ELSE Returned(Get(scraped), TRUE)

\* Lines 187-196: the rate limiter, the arguments and the pool are made and
\* the workers get their arguments.
PoolStart ==
    /\ mp_pc = "partitioned"
    /\ mp_pc' = "running"
    /\ outcomes' = [i \in 1 .. Len(ranges) |-> None]
    /\ UNCHANGED <<mp_start_page, mp_end_page, num_workers, worker_index, ranges,
                   first_finished, combined_file, mp_ret, orchestrator, limiter, units>>

\* Lines 191-196 and 208-210: pool.map pickles each element of args for its
\* worker, and each element holds the RateLimiter with its mp.Lock and
\* mp.Value (lines 33-34), which raise RuntimeError when they are pickled
\* outside the start of a process; the except clause returns None.
PoolPickleError ==
    /\ mp_pc = "partitioned"
    /\ Len(ranges) > 0
    /\ mp_pc' = "done"
    /\ mp_ret' = ReturnedNone
    /\ UNCHANGED <<mp_start_page, mp_end_page, num_workers, worker_index, ranges,
                   outcomes, first_finished, combined_file, orchestrator, limiter, units>>

\* The worker of ranges[i] runs scrape_with_rate_limit on its own documents:
\* a checkpoint document of an earlier run, if any, holds the end of the
\* range.
WorkerRun(i) ==
    /\ mp_pc = "running"
    /\ i \in 1 .. Len(ranges)
    /\ IsNone(outcomes[i])
    /\ \E finished \in BOOLEAN, data \in WorkerData(i), new_token \in AuthResults :
        LET checkpoint_doc == IF finished THEN SaveCheckpoint(ranges[i].end) ELSE None
            data_doc == IF Len(data) = 0 THEN None ELSE SaveProperties(data)
        IN outcomes' = [outcomes EXCEPT ![i] =
                Some(ScrapeWithRateLimit(ranges[i], checkpoint_doc, data_doc, new_token, None))]
    /\ first_finished' = IF first_finished = 0 THEN i ELSE first_finished
    /\ UNCHANGED <<mp_pc, mp_start_page, mp_end_page, num_workers, worker_index, ranges,
                   combined_file, mp_ret, orchestrator, limiter, units>>

\* Lines 196-210: pool.map returns the workers' results in the order of
\* args, or raises what a worker raised; the results are merged and saved.
PoolMapResults(outs) == [i \in 1 .. Len(outs) |-> Get(outs[i]).value]
DriverReturn ==
    /\ mp_pc = "running"
    /\ \A i \in 1 .. Len(ranges) : IsSome(outcomes[i])
    /\ IF \E i \in 1 .. Len(ranges) : Get(outcomes[i]).raised
       THEN /\ mp_ret' = ReturnedNone
            /\ combined_file' = combined_file
       ELSE LET all_props == Reduce(PoolMapResults(outcomes), <<>>)
            IN /\ combined_file' = SaveProperties(all_props)
               /\ mp_ret' = ReturnedList(all_props)
    /\ mp_pc' = "done"
    /\ UNCHANGED <<mp_start_page, mp_end_page, num_workers, worker_index, ranges,
                   outcomes, first_finished, orchestrator, limiter, units>>

\* ----------------------------------------------------- the rate limiter
Callers == 1 .. NumCallers
\* rate_limit as the model draws it: 0, or 1 / d requests a tick.
RateLimits == {[num |-> 0, den |-> 1]} \cup {[num |-> 1, den |-> d] : d \in 1 .. MaxInterval}

\* RateLimiter.__init__, line 32.
Interval(rate_limit) == IF rate_limit.num > 0 THEN rate_limit.den \div rate_limit.num ELSE 0

LimiterIdle ==
    /\ interval = 0 /\ last_request = 0 /\ lock = 0 /\ now = 0
    /\ caller_pc = [c \in Callers |-> "out"]
    /\ sleep_until = [c \in Callers |-> 0]
    /\ grants = <<>>

\* A RateLimiter made with a rate_limit and handed to the callers.
LimiterInit ==
    /\ \E rate_limit \in RateLimits : interval = Interval(rate_limit)
    /\ last_request = 0 /\ lock = 0
    /\ now \in 0 .. MaxInterval
    /\ caller_pc = [c \in Callers |-> "out"]
    /\ sleep_until = [c \in Callers |-> 0]
    /\ grants = <<>>

\* The callers inside wait(), blocked on the lock or holding it.
InWait == {c \in Callers : caller_pc[c] # "out"}
\* Line 36: a caller calls wait() and blocks on the lock.
Enter(c) ==
    /\ caller_pc[c] = "out"
    /\ Len(grants) + Cardinality(InWait) < MaxCalls
    /\ caller_pc' = [caller_pc EXCEPT ![c] = "waiting"]
    /\ UNCHANGED <<interval, last_request, lock, now, sleep_until, grants, orchestrator, driver, units>>

\* Line 40: the caller enters "with self.lock".
LockFree(c) == lock = 0
Acquire(c) ==
    /\ caller_pc[c] = "waiting"
    /\ LockFree(c)
    /\ lock' = c
    /\ caller_pc' = [caller_pc EXCEPT ![c] = "locked"]
    /\ UNCHANGED <<interval, last_request, now, sleep_until, grants, orchestrator, driver, units>>

\* Lines 45-46: the time at which a sleep started at current_time may end
\* (and the variant that sleeps the time elapsed, not the time left).
SleepEndElapsed(current_time, time_since_last) == current_time + time_since_last
SleepEnd(current_time, time_since_last) == current_time + (interval - time_since_last)

\* Lines 41-46: read the clock, and start to sleep if the last request is
\* too close.
ReadClock(c) ==
    /\ caller_pc[c] = "locked"
    /\ LET current_time == now
           time_since_last == current_time - last_request
       IN IF time_since_last < interval
          THEN /\ sleep_until' = [sleep_until EXCEPT ![c] = SleepEnd(current_time, time_since_last)]
               /\ caller_pc' = [caller_pc EXCEPT ![c] = "sleeping"]
          ELSE /\ sleep_until' = sleep_until
               /\ caller_pc' = [caller_pc EXCEPT ![c] = "stamping"]
    /\ UNCHANGED <<interval, last_request, lock, now, grants, orchestrator, driver, units>>

\* Line 46: time.sleep returns, not before the time asked for has passed.
Wake(c) ==
    /\ caller_pc[c] = "sleeping"
    /\ now >= sleep_until[c]
    /\ caller_pc' = [caller_pc EXCEPT ![c] = "stamping"]
    /\ UNCHANGED <<interval, last_request, lock, now, sleep_until, grants, orchestrator, driver, units>>

\* Line 48 and the end of the with block: write the clock to last_request,
\* release the lock.
WithExitHeld(c) == c
WithExit(c) == 0
Stamp(c) ==
    /\ caller_pc[c] = "stamping"
    /\ last_request' = now
    /\ grants' = Append(grants, now)
    /\ lock' = WithExit(c)
    /\ caller_pc' = [caller_pc EXCEPT ![c] = "out"]
    /\ UNCHANGED <<interval, now, sleep_until, orchestrator, driver, units>>

\* Time passes: up to MaxClock, and beyond it for as long as a caller sleeps.
Sleepers == {c \in Callers : caller_pc[c] = "sleeping" /\ now < sleep_until[c]}
Tick ==
    /\ now < MaxClock \/ Sleepers # {}
    /\ now' = now + 1
    /\ UNCHANGED <<interval, last_request, lock, caller_pc, sleep_until, grants,
                   orchestrator, driver, units>>

\* ------------------------------------------- the transport of the session
\* RealEstateScraper.__init__, lines 47-61: the session's adapter resends a
\* request by itself, Retry(total=3, status_forcelist=[429, 500, 502, 503,
\* 504], allowed_methods=["GET", "POST"]).
RETRY_TOTAL == 3
StatusForcelist == {429, 500, 502, 503, 504}

\* A response with status 200 whose body is not JSON.
NotJson == Response("none", 200, FALSE, Body(None, None))

\* What the adapter resends on: a network error or a status of the list.
Retriable(w) == w.exc \in {"timeout", "connection"} \/ (w.exc = "none" /\ w.status \in StatusForcelist)

\* One call of session.post: wire[i] is the upstream's answer to the i-th
\* transmission; the call hands over the first answer that is not resent
\* on, or raises once 1 + total transmissions were made ("retry":
\* requests.RetryError).  answers: the answers to the transmissions made.
RECURSIVE Transmit(_, _)
Transmit(wire, sent) ==
    LET w == wire[sent + 1]
    IN IF Retriable(w)
       THEN IF sent >= RETRY_TOTAL
            THEN [response |-> IF w.exc # "none" THEN w ELSE Raised("retry"),
                  answers |-> SubSeq(wire, 1, sent + 1)]
            ELSE Transmit(wire, sent + 1)
       ELSE [response |-> w, answers |-> SubSeq(wire, 1, sent + 1)]
SessionPost(wire) == Transmit(wire, 0)

\* ------------------------------------------- one call of fetch_page_data
\* The page of the call.
UnitPage == FirstPage
\* max_retries is drawn from 0 .. MaxBudget.
Budgets == 0 .. MaxBudget

\* The upstream's answers to a transmission.
Wires(p) ==
    {Ok(Body(Some(PageItems(p, 1)), None)), Ok(Body(None, None)), NotJson,
     Http(401), Http(403), Http(404), Http(429), Http(503),
     Raised("timeout"), Raised("connection")}
\* The upstream's answers to the transmissions of one session.post: the same
\* answer every time.
WireSeqs(p) == {[i \in 1 .. RETRY_TOTAL + 1 |-> w] : w \in Wires(p)}
\* The answers to the calls of session.post of one call of fetch_page_data.
WireScripts(p, max_retries) == [1 .. max_retries + 1 -> WireSeqs(p)]

\* The bodies the cache may hold for a page: an empty page, a page of items.
CachedBodies(p) ==
    {Body(Some(<<>>), None), Body(Some(PageItems(p, 1)), Some(Meta(Some(TRUE), None, None)))}

RECURSIVE Flatten(_)
Flatten(seqs) == IF Len(seqs) = 0 THEN <<>> ELSE Head(seqs) \o Flatten(Tail(seqs))

NoFetch ==
    [kind |-> "none", max_retries |-> 0, token_before |-> None, cache_before |-> None,
     cache_live |-> FALSE, delivered |-> <<>>, answers |-> <<>>, result |-> None,
     need_refresh |-> FALSE, is_last |-> FALSE, cache_hit |-> FALSE, posts |-> 0,
     auth_gets |-> 0]

FetcherIdle == fetch_pc = "off" /\ fetched = NoFetch

\* A scraper whose fetch_page_data is about to be called: it holds a token
\* or not, caches or not, and the cache holds a body of the page or not.
FetcherInit ==
    /\ checkpoint_file = None /\ data_file = None /\ failed_file = None
    /\ \E e \in {None} \cup {Some(b) : b \in CachedBodies(UnitPage)} :
          cache = [p \in Pages |-> IF p = UnitPage THEN e ELSE None]
    /\ token \in AuthResults
    /\ use_cache \in BOOLEAN
    /\ pc = "idle"
    /\ start_page = FirstPage /\ end_page = FirstPage /\ batch_size = 1
    /\ retry_failed = FALSE /\ detect_last_page = FALSE
    /\ last_page = 0 /\ all_properties = <<>> /\ current_batch = <<>>
    /\ failed_pages = {} /\ current_page = 0 /\ reached_last_page = FALSE
    /\ ret = None
    /\ resumed_from = 0 /\ first_fetched = 0 /\ iteration = NoIteration
    /\ token_asked = FALSE /\ run_items = <<>> /\ disk_faulty = FALSE
    /\ fetch_pc = "ready" /\ fetched = NoFetch

\* The call and what it leaves behind.
Fetched(kind, page, max_retries, check_last_page, live, new_token, script) ==
    LET posted == [i \in 1 .. Len(script) |-> SessionPost(script[i])]
        responses == [i \in 1 .. Len(script) |-> posted[i].response]
        f == FetchPageData(page, max_retries, check_last_page, token, use_cache, cache,
                           live, new_token, responses)
    IN /\ token' = f.token
       /\ cache' = f.cache
       /\ fetched' =
            [kind |-> kind, max_retries |-> max_retries, token_before |-> token,
             cache_before |-> cache[page], cache_live |-> live,
             delivered |-> SubSeq(responses, 1, f.posts),
             answers |-> Flatten([i \in 1 .. f.posts |-> posted[i].answers]),
             result |-> f.result, need_refresh |-> f.need_refresh, is_last |-> f.is_last,
             cache_hit |-> f.cache_hit, posts |-> f.posts, auth_gets |-> f.auth_gets]
       /\ fetch_pc' = "returned"

\* scraper.fetch_page_data(page, max_retries, check_last_page).
FetchCall ==
    /\ fetch_pc = "ready"
    /\ \E max_retries \in Budgets, check_last_page \in BOOLEAN,
          live \in CacheLive(UnitPage), new_token \in NewTokens :
        \E script \in WireScripts(UnitPage, max_retries) :
            Fetched("direct", UnitPage, max_retries, check_last_page, live, new_token, script)
    /\ UNCHANGED <<disk, disk_faulty, use_cache, pc, args, locals, ret, history, driver, limiter,
                   merger, cache_dir, functions>>

\* multiprocessing_scraper.py, lines 85-87: rate_limited_fetch(page,
\* max_retries), the fetch a fan-out worker installs on its scraper:
\* rate_limiter.wait(), here with the interval elapsed and the lock free,
\* then the original fetch_page_data(page, max_retries).
RateLimitedFetchCall ==
    /\ fetch_pc = "ready"
    /\ lock = 0 /\ now - last_request >= interval
    /\ last_request' = now
    /\ grants' = Append(grants, now)
    /\ \E max_retries \in Budgets, live \in CacheLive(UnitPage), new_token \in NewTokens :
        \E script \in WireScripts(UnitPage, max_retries) :
            Fetched("gated", UnitPage, max_retries, FALSE, live, new_token, script)
    /\ UNCHANGED <<disk, disk_faulty, use_cache, pc, args, locals, ret, history, driver,
                   interval, lock, now, caller_pc, sleep_until, merger, cache_dir,
                   functions>>

\* ------------------------------------- one call of merge_property_lists
\* The lists the call is given: up to MaxList records of the workers.
RECURSIVE ListsUpTo(_, _)
ListsUpTo(S, n) ==
    IF n = 0 THEN {<<>>}
    ELSE ListsUpTo(S, n - 1)
         \cup {Append(l, x) : l \in {m \in ListsUpTo(S, n - 1) : Len(m) = n - 1}, x \in S}
MergeRecords == {WorkerRecord(w, id) : w \in 1 .. MaxWorkers, id \in 0 .. MaxId}

MergerIdle == merge_pc = "off" /\ merge_list = <<>> /\ merged = <<>>
MergerInit ==
    /\ merge_pc = "ready"
    /\ merge_list \in ListsUpTo(MergeRecords, MaxList)
    /\ merged = <<>>

\* merge_property_lists(L, L)
MergeSelf ==
    /\ merge_pc = "ready"
    /\ merged' = MergePropertyLists(merge_list, merge_list)
    /\ merge_pc' = "done"
    /\ UNCHANGED <<merge_list, orchestrator, driver, limiter, fetcher, cache_dir, functions>>

\* ------------------------------------------------- the cache directory
CACHE_EXPIRY == 86400

\* json.dump of a response body: the keys the dictionary has, with their
\* values, in order; json.load: the dictionary of the keys of the text.
JsonDump(data) ==
    (IF IsSome(data.realStateItemModel)
     THEN <<[key |-> "realStateItemModel", value |-> Get(data.realStateItemModel)]>>
     ELSE <<>>)
    \o (IF IsSome(data.meta) THEN <<[key |-> "meta", value |-> Get(data.meta)]>> ELSE <<>>)
Lookup(text, k) ==
    IF \E i \in 1 .. Len(text) : text[i].key = k
    THEN Some(text[CHOOSE i \in 1 .. Len(text) : text[i].key = k].value)
    ELSE None
JsonLoad(text) == Body(Lookup(text, "realStateItemModel"), Lookup(text, "meta"))

\* Line 66 of cache_utils.py (first, the variant with the test reversed).
ExpiredReversed(file_age) == file_age < CACHE_EXPIRY
Expired(file_age) == file_age > CACHE_EXPIRY

\* get_from_cache: None, or the data of the file.
GetFromCache(files, cache_key, time) ==
    IF IsNone(files[cache_key]) THEN None
    ELSE IF Expired(time - Get(files[cache_key]).mtime) THEN None
    ELSE Some(JsonLoad(Get(files[cache_key]).text))
\* save_to_cache: the file is written at the time of the clock.
SaveToCache(files, cache_key, data, time) ==
    [files EXCEPT ![cache_key] = Some([text |-> JsonDump(data), mtime |-> time])]

\* The keys and the payloads of the calls, and the moves of the clock.
CacheKeys == {UnitPage}
Payloads == PageBodies(UnitPage) \cup {Body(None, None)}
ClockMoves == {1, CACHE_EXPIRY - 1, CACHE_EXPIRY}
NoGet == [key |-> 0, at |-> 0, saved |-> None, result |-> None]

\* An empty cache directory.
CacheIdle ==
    /\ cache_files = [k \in CacheKeys |-> None]
    /\ cache_clock = 0 /\ cache_steps = 0
    /\ cache_saved = [k \in CacheKeys |-> None]
    /\ cache_got = NoGet

SaveCall(cache_key, data) ==
    /\ cache_files' = SaveToCache(cache_files, cache_key, data, cache_clock)
    /\ cache_saved' = [cache_saved EXCEPT ![cache_key] = Some([data |-> data, at |-> cache_clock])]
    /\ UNCHANGED <<cache_clock, cache_steps, cache_got, orchestrator, driver, limiter,
                   fetcher, merger, functions>>
GetCall(cache_key) ==
    /\ cache_got' = [key |-> cache_key, at |-> cache_clock, saved |-> cache_saved[cache_key],
                     result |-> GetFromCache(cache_files, cache_key, cache_clock)]
    /\ UNCHANGED <<cache_files, cache_clock, cache_steps, cache_saved, orchestrator, driver,
                   limiter, fetcher, merger, functions>>
\* Time passes.
ClockMove(d) ==
    /\ cache_steps < MaxClockMoves
    /\ cache_clock' = cache_clock + d
    /\ cache_steps' = cache_steps + 1
    /\ UNCHANGED <<cache_files, cache_saved, cache_got, orchestrator, driver, limiter,
                   fetcher, merger, functions>>

\* ----------------------------------------------------- the cache key
\* hash() of a str is salted with the hash seed the interpreter draws when it
\* starts (PYTHONHASHSEED is not set by the program); a process forked from
\* another has its parent's seed.  Two hashes of strs are equal when the
\* strings and the seeds are.
StrHash(s, seed) == [salt |-> seed, of |-> s]
\* str() of the city id list.
Str(v) == [repr |-> v]
\* hash(frozenset(key_parts.items())): the hash of each item is made of the
\* hashes of its key, a str, and of its value, an int or a str.
FrozensetHash(key_parts, seed) ==
    [k \in DOMAIN key_parts |->
        <<StrHash(k, seed),
          IF k = "cityIdList" THEN StrHash(key_parts[k], seed) ELSE key_parts[k]>>]
GetCacheKey(page, params, seed) ==
    LET key_parts == [page |-> page,
                      realEstateType |-> params.realEstateType,
                      realEstateDealType |-> params.realEstateDealType,
                      cityIdList |-> Str(params.cityIdList),
                      currencyId |-> params.currencyId]
    IN [page |-> page, hash |-> FrozensetHash(key_parts, seed)]

\* The request parameters of fetch_page_data, for two cities, and the hash
\* seeds of the processes.
KeyParams ==
    {[realEstateType |-> 5, realEstateDealType |-> 4, cityIdList |-> <<c>>, currencyId |-> 1] :
        c \in {95, 96}}
HashSeeds == 0 .. MaxSeed
KeyCalls == [page : Pages, params : KeyParams, seed : HashSeeds]

KeyerIdle == key_pc = "idle" /\ key_calls = <<>> /\ keys = <<>>
KeyerInit == key_pc = "call" /\ key_calls \in [1 .. 2 -> KeyCalls] /\ keys = <<>>
GetCacheKeyCalls ==
    /\ key_pc = "call"
    /\ keys' = [i \in 1 .. 2 |->
                  GetCacheKey(key_calls[i].page, key_calls[i].params, key_calls[i].seed)]
    /\ key_pc' = "done"
    /\ UNCHANGED <<key_calls, orchestrator, driver, limiter, fetcher, merger, cache_dir,
                   oracle, retrier, sweeper>>

\* ------------------------------------------- is_last_page on its own
\* The response bodies: the item list missing, empty or not, and every meta
\* object of a flag and two page numbers, each of which may be missing.
OracleMetas ==
    {None} \cup
    {Some(Meta(f, c, t)) : f \in {None, Some(TRUE), Some(FALSE)},
                           c \in {None} \cup {Some(n) : n \in 1 .. MaxTotal},
                           t \in {None} \cup {Some(n) : n \in 1 .. MaxTotal}}
OracleBodies ==
    {Body(items, m) : items \in {None, Some(<<>>), Some(PageItems(UnitPage, 1))},
                      m \in OracleMetas}
OracleIdle == oracle_pc = "idle" /\ api_response = Body(None, None) /\ oracle_ret = FALSE
OracleInit == oracle_pc = "call" /\ api_response \in OracleBodies /\ oracle_ret = FALSE
IsLastPageCall ==
    /\ oracle_pc = "call"
    /\ oracle_ret' = IsLastPage(api_response)
    /\ oracle_pc' = "done"
    /\ UNCHANGED <<api_response, orchestrator, driver, limiter, fetcher, merger, cache_dir,
                   keyer, retrier, sweeper>>

\* ---------------------------------------- main.retry_failed_pages
LoadFailedPages(file) ==
    IF IsSome(file)
    THEN {Get(file).failed_pages[i] : i \in 1 .. Len(Get(file).failed_pages)}
    ELSE {}
\* The names main.py imports from utils.file_utils (line 14).
MainImports == {"ensure_directory", "load_failed_pages"}
\* The values every return of fetch_page_data carries, and the names lines
\* 187 and 195 unpack them into.
FetchReturnValues(f) == <<f.result, f.need_refresh, f.is_last>>
UnpackTargets == <<"result", "need_refresh">>

\* The upstream's answers to the five attempts of a retry: one response of
\* the page, first or last, among timeouts.
RetryScripts(p) ==
    {[i \in 1 .. 5 |-> IF i = k THEN r ELSE Raised("timeout")] :
        r \in PageResponses(p), k \in {1, 5}}
FailedDocs == {None} \cup {SaveFailedPages(S) : S \in SUBSET Pages}
\* args.use_cache, the locals failed_pages and all_properties and the pages
\* still to come of `for page in sorted(failed_pages)`; history: the pages loaded, the
\* calls of fetch_page_data, the number of writes of the document, whether
\* the loop was left by break, the exception that ended the call, and the
\* value returned.
NoRetry ==
    [use_cache |-> FALSE, failed_pages |-> {}, all_properties |-> <<>>, todo |-> <<>>,
     loaded |-> {},
     fetches |-> <<>>, writes |-> 0, broke |-> FALSE, exc |-> "none", ret |-> None]
RetryFetch(page, max_retries, f) ==
    [page |-> page, max_retries |-> max_retries, result |-> f.result, posts |-> f.posts,
     cache_hit |-> f.cache_hit]

RetrierIdle == retry_pc = "idle" /\ retry_file = None /\ retry = NoRetry
RetrierInit ==
    /\ retry_pc = "call" /\ retry_file \in FailedDocs
    /\ \E u \in BOOLEAN : retry = [NoRetry EXCEPT !.use_cache = u]
\* Lines 160-179.
RetryLoad ==
    /\ retry_pc = "call"
    /\ LET failed == LoadFailedPages(retry_file)
       IN /\ retry' = [retry EXCEPT !.failed_pages = failed, !.loaded = failed,
                                    !.todo = SortedList(failed),
                                    !.ret = IF failed = {} THEN Some(<<>>) ELSE None]
          /\ retry_pc' = IF failed = {} THEN "done" ELSE "loop"
    /\ UNCHANGED <<retry_file, orchestrator, driver, limiter, fetcher, merger, cache_dir,
                   keyer, oracle, sweeper>>
\* One pass of the for loop, lines 180-208, and the return after the last.
\* The scraper is fresh; cached is the live cache file of the page, if any.
RetryPage ==
    /\ retry_pc = "loop"
    /\ LET page == Head(retry.todo)
       IN \E new_token \in AuthResults, s1 \in RetryScripts(page),
             cached \in IF retry.use_cache
                        THEN {None} \cup {Some(b) : b \in CachedBodies(page)}
                        ELSE {None} :
           LET page_cache == [p \in Pages |-> IF p = page THEN cached ELSE None] IN
           IF IsNone(new_token)
           THEN /\ retry' = [retry EXCEPT !.broke = TRUE, !.ret = Some(retry.all_properties)]
                /\ retry_pc' = "done"
                /\ UNCHANGED retry_file
           ELSE LET f1 == FetchPageData(page, 5, FALSE, new_token, retry.use_cache,
                                        page_cache, TRUE, None, s1)
                    fetched1 == Append(retry.fetches, RetryFetch(page, 5, f1))
                IN IF Len(FetchReturnValues(f1)) # Len(UnpackTargets)
                   THEN /\ retry' = [retry EXCEPT !.fetches = fetched1, !.exc = "ValueError"]
                        /\ retry_pc' = "raised"
                        /\ UNCHANGED retry_file
                   ELSE \E refreshed \in AuthResults, s2 \in RetryScripts(page) :
                        LET again == f1.need_refresh /\ IsSome(refreshed)
                            f2 == IF again
                                  THEN FetchPageData(page, 5, FALSE, refreshed, retry.use_cache,
                                                     f1.cache, TRUE, None, s2)
                                  ELSE f1
                            fetched2 == IF again
                                        THEN Append(fetched1, RetryFetch(page, 5, f2))
                                        ELSE fetched1
                            ok == IsSome(f2.result) /\ Len(Get(f2.result)) > 0
                            failed == IF ok THEN retry.failed_pages \ {page}
                                      ELSE retry.failed_pages
                            props == IF ok THEN retry.all_properties \o Get(f2.result)
                                     ELSE retry.all_properties
                        IN IF f1.need_refresh /\ IsNone(refreshed)
                           THEN /\ retry' = [retry EXCEPT !.fetches = fetched1, !.broke = TRUE,
                                                          !.ret = Some(retry.all_properties)]
                                /\ retry_pc' = "done"
                                /\ UNCHANGED retry_file
                           ELSE IF "save_failed_pages" \notin MainImports
                           THEN /\ retry' = [retry EXCEPT !.fetches = fetched2,
                                                          !.failed_pages = failed,
                                                          !.all_properties = props,
                                                          !.exc = "NameError"]
                                /\ retry_pc' = "raised"
                                /\ UNCHANGED retry_file
                           ELSE /\ retry_file' = SaveFailedPages(failed)
                                /\ retry' = [retry EXCEPT
                                                !.fetches = fetched2,
                                                !.failed_pages = failed,
                                                !.all_properties = props,
                                                !.writes = retry.writes + 1,
                                                !.todo = Tail(retry.todo),
                                                !.ret = IF Tail(retry.todo) = <<>>
                                                        THEN Some(props) ELSE None]
                                /\ retry_pc' = IF Tail(retry.todo) = <<>>
                                               THEN "done" ELSE "loop"
    /\ UNCHANGED <<orchestrator, driver, limiter, fetcher, merger, cache_dir, keyer, oracle,
                   sweeper>>

\* ------------------------------------------- the sweep of the cache
\* RealEstateScraper.__init__, lines 64-69: every worker of a fan-out run
\* with caching enabled calls clear_expired_cache on Path(CACHE_DIR), one
\* directory for all of them.
Sweepers == 1 .. NumSweepers
SweepFiles == 1 .. NumCacheFiles
NoSweep == [pc |-> "off", current_time |-> 0, todo |-> <<>>, count |-> 0, exc |-> "none"]
SweeperIdle ==
    /\ sweep_dir = [f \in SweepFiles |-> None] /\ sweep_clock = 0
    /\ sweeps = [w \in Sweepers |-> NoSweep]
\* The workers are about to sweep a directory whose entries are one second
\* past the expiry or exactly at it.
SweeperInit ==
    /\ sweep_clock = CACHE_EXPIRY + 1
    /\ sweep_dir \in [SweepFiles -> {None, Some(0), Some(1)}]
    /\ sweeps = [w \in Sweepers |-> [NoSweep EXCEPT !.pc = "start"]]

\* Lines 112-118: the directory exists (ensure_cache_dir made it); read the
\* clock; glob lists the directory when the for loop asks for its first
\* path and yields the paths of that listing.
SweepList(w) ==
    /\ sweeps[w].pc = "start"
    /\ sweeps' = [sweeps EXCEPT ![w] =
                    [pc |-> "loop", current_time |-> sweep_clock,
                     todo |-> SortedList({f \in SweepFiles : IsSome(sweep_dir[f])}),
                     count |-> 0, exc |-> "none"]]
    /\ UNCHANGED <<sweep_dir, sweep_clock, orchestrator, driver, limiter, fetcher, merger,
                   cache_dir, keyer, oracle, retrier>>
\* Lines 119-120: cache_file.stat() on the next path of the listing, which
\* raises FileNotFoundError if the file is gone, and the test of its age.
SweepStat(w) ==
    /\ sweeps[w].pc = "loop" /\ sweeps[w].todo # <<>>
    /\ LET cache_file == Head(sweeps[w].todo)
       IN sweeps' = [sweeps EXCEPT ![w] =
            IF IsNone(sweep_dir[cache_file])
            THEN [@ EXCEPT !.pc = "raised", !.exc = "FileNotFoundError"]
            ELSE IF Expired(sweeps[w].current_time - Get(sweep_dir[cache_file]))
            THEN [@ EXCEPT !.pc = "unlink"]
            ELSE [@ EXCEPT !.todo = Tail(@)]]
    /\ UNCHANGED <<sweep_dir, sweep_clock, orchestrator, driver, limiter, fetcher, merger,
                   cache_dir, keyer, oracle, retrier>>
\* Lines 121-122: cache_file.unlink(), which raises FileNotFoundError if the
\* file is gone, and the count.
SweepUnlink(w) ==
    /\ sweeps[w].pc = "unlink"
    /\ LET cache_file == Head(sweeps[w].todo)
       IN IF IsNone(sweep_dir[cache_file])
          THEN /\ sweeps' = [sweeps EXCEPT ![w] =
                                [@ EXCEPT !.pc = "raised", !.exc = "FileNotFoundError"]]
               /\ UNCHANGED sweep_dir
          ELSE /\ sweep_dir' = [sweep_dir EXCEPT ![cache_file] = None]
               /\ sweeps' = [sweeps EXCEPT ![w] =
                                [@ EXCEPT !.pc = "loop", !.todo = Tail(@),
                                          !.count = @ + 1]]
    /\ UNCHANGED <<sweep_clock, orchestrator, driver, limiter, fetcher, merger,
                   cache_dir, keyer, oracle, retrier>>
\* Lines 124-125: the listing is exhausted, the count is returned and the
\* worker goes on to scrape_properties.
SweepReturn(w) ==
    /\ sweeps[w].pc = "loop" /\ sweeps[w].todo = <<>>
    /\ sweeps' = [sweeps EXCEPT ![w] = [@ EXCEPT !.pc = "done"]]
    /\ UNCHANGED <<sweep_dir, sweep_clock, orchestrator, driver, limiter, fetcher, merger,
                   cache_dir, keyer, oracle, retrier>>

FunctionsIdle == KeyerIdle /\ OracleIdle /\ RetrierIdle /\ SweeperIdle
UnitsIdle == FetcherIdle /\ MergerIdle /\ CacheIdle /\ FunctionsIdle

\* ------------------------------------------------------ specifications
\* The orchestrator: runs of scrape_properties on one set of documents.
Init == OrchestratorInit /\ DriverIdle /\ LimiterIdle /\ UnitsIdle
Next == Start \/ LoopStep \/ FinalSave \/ ProcessEnds
Spec == Init /\ [][Next]_vars

\* The orchestrator, started by run_single_process, on a disk that fails one
\* write.
InitFaulty == FreshScraper /\ disk_faulty = TRUE /\ DriverIdle /\ LimiterIdle /\ UnitsIdle
NextFaulty == RunSingleProcess \/ LoopStep \/ FinalSave \/ ProcessEnds
SpecFaulty == InitFaulty /\ [][NextFaulty]_vars

\* The partition of a page range by scrape_with_multiprocessing.
InitDriver == OrchestratorInit /\ DriverInit /\ LimiterIdle /\ UnitsIdle
NextDriver ==
    \/ PartitionStep
    \/ PoolStart
    \/ PoolPickleError
    \/ \E i \in 1 .. MaxWorkers : WorkerRun(i)
    \/ DriverReturn
SpecDriver == InitDriver /\ [][NextDriver]_vars

\* Callers of RateLimiter.wait() on one shared RateLimiter.
InitLimiter == OrchestratorInit /\ DriverIdle /\ LimiterInit /\ UnitsIdle
NextLimiter ==
    \/ \E c \in Callers : Enter(c) \/ Acquire(c) \/ ReadClock(c) \/ Wake(c) \/ Stamp(c)
    \/ Tick
SpecLimiter == InitLimiter /\ [][NextLimiter]_vars
\* The same callers under a fair lock: a caller that runs takes its next
\* step, time passes, and a caller blocked on a lock that is free again and
\* again gets it.  Nothing obliges a caller to call wait().
FairLimiter ==
    /\ WF_vars(Tick)
    /\ \A c \in Callers :
          /\ SF_vars(Acquire(c))
          /\ WF_vars(ReadClock(c)) /\ WF_vars(Wake(c)) /\ WF_vars(Stamp(c))
SpecLimiterFair == InitLimiter /\ [][NextLimiter]_vars /\ FairLimiter

\* Single calls of fetch_page_data, direct and rate-limited.
InitFetcher ==
    FetcherInit /\ DriverIdle /\ LimiterIdle /\ MergerIdle /\ CacheIdle /\ FunctionsIdle
NextFetcher == FetchCall \/ RateLimitedFetchCall
SpecFetcher == InitFetcher /\ [][NextFetcher]_vars

\* Single calls of merge_property_lists(L, L).
InitMerger ==
    /\ OrchestratorInit /\ DriverIdle /\ LimiterIdle
    /\ FetcherIdle /\ MergerInit /\ CacheIdle /\ FunctionsIdle
NextMerger == MergeSelf
SpecMerger == InitMerger /\ [][NextMerger]_vars

\* Calls of save_to_cache and get_from_cache on a cache directory, as time
\* passes.
InitCache ==
    /\ OrchestratorInit /\ DriverIdle /\ LimiterIdle
    /\ FetcherIdle /\ MergerIdle /\ CacheIdle /\ FunctionsIdle
NextCache ==
    \/ \E k \in CacheKeys, data \in Payloads : SaveCall(k, data)
    \/ \E k \in CacheKeys : GetCall(k)
    \/ \E d \in ClockMoves : ClockMove(d)
SpecCache == InitCache /\ [][NextCache]_vars

\* Two calls of get_cache_key, in two processes.
InitKeyer ==
    /\ OrchestratorInit /\ DriverIdle /\ LimiterIdle
    /\ FetcherIdle /\ MergerIdle /\ CacheIdle /\ KeyerInit /\ OracleIdle /\ RetrierIdle /\ SweeperIdle
NextKeyer == GetCacheKeyCalls
SpecKeyer == InitKeyer /\ [][NextKeyer]_vars

\* Single calls of is_last_page.
InitOracle ==
    /\ OrchestratorInit /\ DriverIdle /\ LimiterIdle
    /\ FetcherIdle /\ MergerIdle /\ CacheIdle /\ KeyerIdle /\ OracleInit /\ RetrierIdle /\ SweeperIdle
NextOracle == IsLastPageCall
SpecOracle == InitOracle /\ [][NextOracle]_vars

\* Calls of main.retry_failed_pages on a failed-pages document.
InitRetrier ==
    /\ OrchestratorInit /\ DriverIdle /\ LimiterIdle
    /\ FetcherIdle /\ MergerIdle /\ CacheIdle /\ KeyerIdle /\ OracleIdle /\ RetrierInit /\ SweeperIdle
NextRetrier == RetryLoad \/ RetryPage
SpecRetrier == InitRetrier /\ [][NextRetrier]_vars

\* The workers of a fan-out run with caching enabled, started together:
\* each constructs its scraper, which sweeps the cache directory.
InitSweeper ==
    /\ OrchestratorInit /\ DriverIdle /\ LimiterIdle
    /\ FetcherIdle /\ MergerIdle /\ CacheIdle /\ KeyerIdle /\ OracleIdle /\ RetrierIdle
    /\ SweeperInit
NextSweeper ==
    \E w \in Sweepers : SweepList(w) \/ SweepStat(w) \/ SweepUnlink(w) \/ SweepReturn(w)
SpecSweeper == InitSweeper /\ [][NextSweeper]_vars

\* ================================================================ claims
Last(seq) == seq[Len(seq)]
\* The latest pass of the loop ended by break: its token refresh gave no token.
Broke(it) == Len(it.refreshes) > 0 /\ IsNone(it.refreshes[1])
\* A pass of the loop has just been made.
Passed == pc = "loop" /\ pc' # "idle"

\* C1: a run never hands fetch_page_data a page at or below the last_page the
\* checkpoint document held when the run started, and the first page it
\* hands over is max(that last_page + 1, start_page).
C1_ResumeSkipsCheckpointed ==
    /\ iteration.page # 0 => iteration.page > resumed_from
    /\ first_fetched # 0 => first_fetched = Max(resumed_from + 1, start_page)
\* A resumed run whose start_page lies at or below the checkpoint has fetched.
C1_Witness ==
    /\ resumed_from >= start_page
    /\ first_fetched = resumed_from + 1
    /\ iteration.page > first_fetched

\* C2: when the loop has ended by exhaustion of the range or by detection of
\* the last page, after at least one pass, the checkpoint document holds the
\* page of the last pass.
C2_FinalCheckpointExact ==
    (pc = "done" /\ iteration.page # 0 /\ ~Broke(iteration))
        => checkpoint_file = Some([last_page |-> iteration.page])

\* C3: no step lowers the last_page of the checkpoint document, within a run
\* or from one run to the next, and no step removes the document.
C3_CheckpointMonotonic ==
    [][/\ OnDisk(checkpoint_file') >= OnDisk(checkpoint_file)
       /\ checkpoint_file # None => checkpoint_file' # None]_vars
\* A resumed run has moved the checkpoint past the one it started from.
C3_Witness ==
    /\ resumed_from > 0
    /\ OnDisk(checkpoint_file) > resumed_from
    /\ start_page <= resumed_from

\* C4: every call of scrape_properties (with start_page <= end_page) that
\* returns, returns the list of the accumulated records.
C4_ReturnsList ==
    (pc = "done" /\ start_page <= end_page) => ret = ReturnedList(all_properties)

\* C5: in a pass of the loop fetch_page_data is called at most twice; the
\* token is refreshed once if the first call reported AuthExpired and not at
\* all otherwise, and no call asks for a token itself; there is a second
\* call exactly when the first reported AuthExpired and the refresh gave a
\* token; and every pass is on a page above the page of the pass before it,
\* so no page is fetched in two passes.
C5_Calls(it) ==
    /\ Len(it.calls) \in {1, 2}
    /\ \A i \in 1 .. Len(it.calls) : it.calls[i].auth_gets = 0
    /\ Len(it.refreshes) = IF it.calls[1].need_refresh THEN 1 ELSE 0
    /\ Len(it.calls) = 2 <=> (it.calls[1].need_refresh /\ IsSome(it.refreshes[1]))
C5_OneReauthOneRetry ==
    /\ [](iteration.page # 0 => C5_Calls(iteration))
    /\ [][Passed => /\ iteration'.page = current_page
                    /\ iteration'.page > iteration.page]_vars
\* A page was fetched, reported AuthExpired, the token was refreshed and the
\* page was fetched again with a result.
C5_Witness ==
    /\ Len(iteration.calls) = 2
    /\ IsSome(iteration.calls[2].result)
    /\ iteration.page > first_fetched

\* C6: when the retried fetch of a page reports AuthExpired again, or the
\* token refresh gives no token, the run leaves the loop and the page is not
\* put into the failed-pages set.
AuthUnrecoverable(it) ==
    \/ Broke(it)
    \/ Len(it.calls) = 2 /\ it.calls[2].need_refresh
C6_AuthFailureAborts ==
    (iteration.page # 0 /\ AuthUnrecoverable(iteration))
        => (pc # "loop" /\ iteration.page \notin failed_pages)

\* C7: with detect_last_page set, when a pass of the loop on page p ended on
\* a non-empty item list without a meta object and the next pass, on p + 1,
\* ends on an empty item list, the loop is left; and the loop is never
\* entered with the last page reached, so p + 2 is not fetched.
NonEmptyNoMeta(call) ==
    /\ IsSome(call.result) /\ Len(Get(call.result)) > 0
    /\ IsSome(call.body) /\ IsNone(Get(call.body).meta)
EmptyList(call) == IsSome(call.result) /\ Len(Get(call.result)) = 0
C7_EmptyPageIsTerminal ==
    /\ [][(/\ Passed /\ detect_last_page
           /\ iteration.page # 0 /\ NonEmptyNoMeta(Last(iteration.calls))
           /\ iteration'.page = iteration.page + 1
           /\ EmptyList(Last(iteration'.calls)))
          => (pc' = "final" /\ reached_last_page')]_vars
    /\ [](reached_last_page => pc # "loop")
\* The scenario: items on p, an empty list on p + 1, and p + 2 in the range.
C7_Witness ==
    /\ detect_last_page /\ pc = "final" /\ reached_last_page
    /\ EmptyList(Last(iteration.calls))
    /\ iteration.page = first_fetched + 1
    /\ Len(all_properties) > 0
    /\ end_page > iteration.page

\* C8: when a pass of the loop on page p ends on a Failure (no result, no
\* AuthExpired), p is put into the failed-pages set and, if p < end_page,
\* the loop goes on with page p + 1.
Failure(call) == IsNone(call.result) /\ ~call.need_refresh
C8_FailureNotFatal ==
    [][(Passed /\ ~Broke(iteration') /\ Failure(Last(iteration'.calls)))
       => /\ iteration'.page = current_page
          /\ current_page \in failed_pages'
          /\ current_page < end_page => (pc' = "loop" /\ current_page' = current_page + 1)]_vars
\* A page failed and the page after it has been fetched.
C8_Witness ==
    /\ iteration.page # 0
    /\ (iteration.page - 1) \in failed_pages
    /\ IsSome(Last(iteration.calls).result)

\* C9: for start_page <= end_page the sub-ranges are contiguous and every
\* page of [start_page, end_page] lies in exactly one of them.
C9_PartitionCovers ==
    (mp_pc = "partitioned" /\ mp_start_page <= mp_end_page)
        => /\ \A p \in mp_start_page .. mp_end_page :
                Cardinality({i \in 1 .. Len(ranges) :
                                ranges[i].start <= p /\ p <= ranges[i].end}) = 1
           /\ \A i \in 1 .. Len(ranges) - 1 : ranges[i + 1].start = ranges[i].end + 1

\* C10: with rate_limit > 0 any two values written to last_request are at
\* least interval apart, and at most one caller is between the acquisition
\* and the release of the lock.
InCriticalSection == {c \in Callers : caller_pc[c] \in {"locked", "sleeping", "stamping"}}
C10_RateLimiterSpacing ==
    /\ interval > 0 =>
         \A i, j \in 1 .. Len(grants) : i < j => grants[j] - grants[i] >= interval
    /\ Cardinality(InCriticalSection) <= 1
\* Two grants made, and a caller asleep in wait().
C10_Witness ==
    /\ interval > 1
    /\ Len(grants) >= 2
    /\ \E c \in Callers : caller_pc[c] = "sleeping" /\ sleep_until[c] > now

\* C11: every attempt of a rate-limited fetch has a grant of the limiter of
\* its own, and a fetch answered by the cache takes no grant.
C11_EveryRequestGated ==
    fetched.kind = "gated" =>
        /\ fetched.posts <= Len(grants)
        /\ fetched.cache_hit => Len(grants) = 0

\* C16: a call of fetch_page_data sends at most max_retries HTTP requests
\* and makes at most max_retries attempts, and when the attempts are used up
\* without one that returns, it returns Failure.
Returning(r) ==
    /\ r.exc = "none"
    /\ \/ r.status \in {401, 403}
       \/ r.status = 200 /\ r.json_ok /\ IsSome(r.body.realStateItemModel)
C16_BoundedAttempts ==
    fetched.kind = "direct" =>
        /\ Len(fetched.answers) <= fetched.max_retries
        /\ fetched.posts <= fetched.max_retries
        /\ (/\ fetched.posts = fetched.max_retries
            /\ \A i \in 1 .. fetched.posts : ~Returning(fetched.delivered[i]))
           => Failure(fetched)

\* C17: when the upstream answers a request of fetch_page_data with 401 or
\* 403, that request is the last of the call, the call returns AuthExpired
\* (no result, need-refresh set) and the cache entry of the page is as it
\* was before the call.
AuthAnswer(w) == w.exc = "none" /\ w.status \in {401, 403}
C17_AuthExpiredImmediately ==
    fetched.kind = "direct" =>
        \A i \in 1 .. Len(fetched.answers) :
            AuthAnswer(fetched.answers[i])
                => /\ i = Len(fetched.answers)
                   /\ IsNone(fetched.result) /\ fetched.need_refresh
                   /\ cache[UnitPage] = fetched.cache_before
\* A 403 answered the first attempt of a caching fetcher with budget left.
C17_Witness ==
    /\ fetched.kind = "direct" /\ use_cache
    /\ fetched.posts = 1 /\ fetched.max_retries > 1
    /\ AuthAnswer(Last(fetched.answers)) /\ Last(fetched.answers).status = 403

\* C18: a call of fetch_page_data with no token held and no cache hit
\* returns AuthExpired and sends neither a token request nor a page request.
C18_FetcherNeverAuthenticates ==
    (fetched.kind = "direct" /\ IsNone(fetched.token_before) /\ ~fetched.cache_hit)
        => /\ fetched.need_refresh /\ IsNone(fetched.result)
           /\ fetched.auth_gets = 0 /\ fetched.posts = 0

\* C19: with caching enabled and an entry of the page that is not expired,
\* fetch_page_data returns the items of the entry, makes no attempt, sends
\* no page request and no token request, and leaves the token and the cache
\* entry as they were.
C19_CacheHitShortCircuits ==
    (fetched.kind # "none" /\ use_cache /\ IsSome(fetched.cache_before) /\ fetched.cache_live)
        => /\ fetched.result = Some(ItemsOf(Get(fetched.cache_before)))
           /\ ~fetched.need_refresh
           /\ fetched.posts = 0 /\ Len(fetched.answers) = 0 /\ fetched.auth_gets = 0
           /\ token = fetched.token_before
           /\ cache[UnitPage] = fetched.cache_before
\* The cache answered a fetcher that holds no token and has a budget, with
\* an entry of an empty page.
C19_Witness ==
    /\ fetched.cache_hit /\ fetched.kind = "direct"
    /\ IsNone(fetched.token_before) /\ fetched.max_retries > 0
    /\ fetched.result = Some(<<>>)

\* The workers of the pool have all ended and the driver has returned.
PoolDone == mp_pc = "done" /\ Len(ranges) > 0 /\ Len(outcomes) = Len(ranges)
IsList(r) == IsSome(r) /\ IsSome(Get(r))
\* The results of the workers that returned, in the order of their ranges.
Succeeded == SelectSeq(outcomes, LAMBDA o : ~Get(o).raised)
SucceededResults == [i \in 1 .. Len(Succeeded) |-> Get(Succeeded[i]).value]

\* C12: when every worker of a fan-out run got a token and went on to fetch
\* the pages of its sub-range, scrape_with_multiprocessing returns the
\* merged records of the workers, not None.
C12_FanOutReturnsMerged ==
    (PoolDone /\ \A i \in 1 .. Len(outcomes) : Get(outcomes[i]).token)
        => /\ IsList(mp_ret)
           /\ mp_ret = ReturnedList(Reduce(PoolMapResults(outcomes), <<>>))

\* C13: when a worker of a fan-out run ended by an exception and another
\* returned, scrape_with_multiprocessing returns the merged records of the
\* workers that returned.
C13_WorkerFailureIsolated ==
    (/\ PoolDone
     /\ \E i \in 1 .. Len(outcomes) : Get(outcomes[i]).raised
     /\ \E i \in 1 .. Len(outcomes) : ~Get(outcomes[i]).raised)
        => mp_ret = ReturnedList(Reduce(SucceededResults, <<>>))

\* C14: when the results of two workers hold records of one applicationId,
\* the list scrape_with_multiprocessing returns holds exactly one record of
\* that applicationId, the one of the worker with the latest range.
Holders(a) ==
    {i \in 1 .. Len(outcomes) :
        \E k \in 1 .. Len(Get(outcomes[i]).value) : AppId(Get(outcomes[i]).value[k]) = a}
WithId(list, a) == SelectSeq(list, LAMBDA prop : AppId(prop) = a)
LatestHolder(a) == CHOOSE i \in Holders(a) : \A j \in Holders(a) : j <= i
C14_MergeLastWriteWins ==
    (PoolDone /\ IsList(mp_ret))
        => \A a \in 0 .. MaxId :
              Cardinality(Holders(a)) >= 2
                  => WithId(Get(Get(mp_ret)), a) = <<WorkerRecord(LatestHolder(a), a)>>

\* C15: merge_property_lists(L, L) holds exactly one record of every
\* applicationId that occurs in L, and no other.
Ids(list) == {AppId(list[i]) : i \in 1 .. Len(list)}
C15_MergeIdempotent ==
    merge_pc = "done"
        => /\ Ids(merged) = Ids(merge_list)
           /\ \A a \in Ids(merge_list) : Len(WithId(merged, a)) = 1

\* C20: get_from_cache(key) returns the payload last saved under the key
\* when less than CACHE_EXPIRY has passed since the save, and a miss when
\* more than CACHE_EXPIRY has passed.
GotAge == cache_got.at - Get(cache_got.saved).at
C20_CacheRoundTrip ==
    (cache_got.key # 0 /\ IsSome(cache_got.saved))
        => /\ GotAge < CACHE_EXPIRY => cache_got.result = Some(Get(cache_got.saved).data)
           /\ GotAge > CACHE_EXPIRY => cache_got.result = None
\* A payload with items was saved twice under the key, and read one second
\* after the second copy expired.
C20_Witness ==
    /\ cache_got.key # 0 /\ IsSome(cache_got.saved)
    /\ Get(cache_got.saved).at > 0
    /\ IsSome(Get(cache_got.saved).data.realStateItemModel)
    /\ GotAge = CACHE_EXPIRY + 1
    /\ cache_got.result = None

\* C21: two calls of get_cache_key with equal page and parameters return the
\* same key, whichever processes make them.
SameInputs(a, b) == a.page = b.page /\ a.params = b.params
C21_KeyDeterministic ==
    key_pc = "done" =>
        \A i, j \in 1 .. 2 : SameInputs(key_calls[i], key_calls[j]) => keys[i] = keys[j]

\* The parts of the response is_last_page was given.
ItemList == api_response.realStateItemModel
NonEmptyList == IsSome(ItemList) /\ Len(Get(ItemList)) > 0
HasMeta(k) == IsSome(api_response.meta) /\ IsSome(Get(api_response.meta)[k])
MetaOf(k) == Get(Get(api_response.meta)[k])
HasPageNumbers == HasMeta("currentPage") /\ HasMeta("totalPages")

\* C22: is_last_page returns true for every response whose item list is
\* present and empty, whatever meta holds.
C22_EmptyListIsLast ==
    (oracle_pc = "done" /\ IsSome(ItemList) /\ Len(Get(ItemList)) = 0) => oracle_ret = TRUE
\* An empty list with a meta that says the opposite: the flag is false and
\* the current page is below the total.
C22_Witness ==
    /\ oracle_pc = "done" /\ IsSome(ItemList) /\ Len(Get(ItemList)) = 0
    /\ HasMeta("isLastPage") /\ MetaOf("isLastPage") = FALSE
    /\ HasPageNumbers /\ MetaOf("currentPage") < MetaOf("totalPages")
    /\ oracle_ret = TRUE

\* C23 as stated: for a non-empty item list is_last_page returns true when
\* currentPage = totalPages and false when currentPage < totalPages.
C23_PageNumbersDecide ==
    (oracle_pc = "done" /\ NonEmptyList /\ HasPageNumbers) =>
        /\ MetaOf("currentPage") = MetaOf("totalPages") => oracle_ret = TRUE
        /\ MetaOf("currentPage") < MetaOf("totalPages") => oracle_ret = FALSE
\* C23 amended: for a non-empty item list and a meta without isLastPage,
\* is_last_page returns true when currentPage = totalPages and false when
\* currentPage < totalPages; with isLastPage present it returns that flag.
C23_PageNumbersDecideWithoutFlag ==
    (oracle_pc = "done" /\ NonEmptyList /\ HasPageNumbers) =>
        IF HasMeta("isLastPage")
        THEN oracle_ret = MetaOf("isLastPage")
        ELSE /\ MetaOf("currentPage") = MetaOf("totalPages") => oracle_ret = TRUE
             /\ MetaOf("currentPage") < MetaOf("totalPages") => oracle_ret = FALSE
\* The numbers decide: no flag, currentPage = totalPages, true returned.
C23_Witness ==
    /\ oracle_pc = "done" /\ NonEmptyList /\ HasPageNumbers /\ ~HasMeta("isLastPage")
    /\ MetaOf("currentPage") = MetaOf("totalPages") /\ oracle_ret = TRUE

\* C24: a call of scrape_properties that finds a checkpoint with last_page >=
\* end_page is done at once: it asks for no token, fetches no page, leaves
\* the three documents as they are and returns the records of the data
\* document.
C24_IdempotentRerun ==
    [][(pc = "idle" /\ pc' # "idle" /\ OnDisk(checkpoint_file) >= end_page')
        => /\ pc' = "done"
           /\ ~token_asked' /\ token' = token
           /\ first_fetched' = 0 /\ iteration' = NoIteration /\ run_items' = <<>>
           /\ disk' = disk
           /\ ret' = ReturnedList(LoadProperties(data_file))]_vars
\* Such a call has returned the records of an earlier run, the checkpoint
\* being on or beyond end_page.
C24_Witness ==
    /\ pc = "done" /\ ~token_asked /\ first_fetched = 0
    /\ resumed_from >= end_page
    /\ IsSome(data_file) /\ Len(Get(data_file)) > 0
    /\ ret = ReturnedList(Get(data_file))

\* C25: a write of the data, checkpoint or failed-pages document that fails
\* does not end the run: no call of scrape_properties is left by the
\* exception of a write.
C25_WriteFailureNotFatal == pc # "raised"

\* C26: a retry of the failed pages that gets its tokens fetches every
\* failed page once, in ascending order, with the budget of five attempts,
\* takes the pages that returned items out of the failed set, and writes
\* the failed-pages document after each page.
Retried == [i \in 1 .. Len(retry.fetches) |-> retry.fetches[i].page]
C26_RetryingFailed ==
    (retry_pc \in {"done", "raised"} /\ ~retry.broke) =>
        /\ Retried = SortedList(retry.loaded)
        /\ \A i \in 1 .. Len(retry.fetches) :
              /\ retry.fetches[i].max_retries > MAX_RETRIES
              /\ (IsSome(retry.fetches[i].result) /\ Len(Get(retry.fetches[i].result)) > 0)
                    => retry.fetches[i].page \notin retry.failed_pages
        /\ retry.writes = Len(retry.fetches)
        /\ LoadFailedPages(retry_file) = retry.failed_pages

\* C27: when a call of scrape_properties that attempted a page has ended,
\* the failed-pages document holds every page the run recorded as failed.
C27_FailedPagesPersisted ==
    (pc = "done" /\ first_fetched # 0) => failed_pages \subseteq LoadFailedPages(failed_file)

\* C28: after a page is processed a checkpoint save is made exactly when the
\* batch holds at least batch_size records or the page is a multiple of
\* CHECKPOINT_INTERVAL; the save writes all the accumulated records,
\* last_page = the page and the failed-pages set, and empties the batch.
ItemsReturned(call) == IF IsSome(call.result) THEN Get(call.result) ELSE <<>>
C28_CheckpointTrigger ==
    [][(pc = "loop" /\ current_page' = current_page + 1) =>
        LET batch == current_batch \o ItemsReturned(Last(iteration'.calls))
            due == \/ Len(batch) >= batch_size
                   \/ current_page % CHECKPOINT_INTERVAL = 0
        IN IF due
           THEN /\ data_file' = Some(all_properties')
                /\ \A i \in 1 .. Len(run_items') :
                      \E j \in 1 .. Len(all_properties') : all_properties'[j] = run_items'[i]
                /\ checkpoint_file' = Some([last_page |-> current_page])
                /\ IsSome(failed_file') /\ LoadFailedPages(failed_file') = failed_pages'
                /\ current_batch' = <<>>
           ELSE /\ disk' = disk
                /\ current_batch' = batch]_vars
\* A save made for the page number alone: the page failed, the batch is
\* below batch_size, and the documents carry the page.
C28_Witness ==
    /\ pc \in {"loop", "final"}
    /\ iteration.page # 0 /\ iteration.page % CHECKPOINT_INTERVAL = 0
    /\ IsNone(Last(iteration.calls).result)
    /\ batch_size > 1
    /\ OnDisk(checkpoint_file) = iteration.page
    /\ iteration.page \in LoadFailedPages(failed_file)
    /\ IsSome(data_file) /\ Len(Get(data_file)) > 0
    /\ current_batch = <<>>

\* C29: the data document is written before the checkpoint document, so at
\* every moment, a failed or interrupted save included, the data document
\* holds the records of every page at or below the last_page on disk that
\* the run fetched, and every record it held before: the records of the
\* earlier runs stay.
PageOf(record) == record.applicationId \div 10
InData(record, file) ==
    \E j \in 1 .. Len(LoadProperties(file)) : LoadProperties(file)[j] = record
Covered ==
    \A i \in 1 .. Len(run_items) :
        PageOf(run_items[i]) <= OnDisk(checkpoint_file) => InData(run_items[i], data_file)
C30_LoopTerminates ==
    [][Passed =>
        /\ iteration'.page = current_page
        /\ iteration.page # 0 => iteration'.page > iteration.page
        /\ iteration'.page >= Max(resumed_from + 1, start_page)
        /\ iteration'.page <= end_page
        /\ pc' \in {"loop", "final"}
        /\ pc' = "loop" => (current_page' > current_page /\ current_page' <= end_page)]_vars
\* A run without any last-page signal that has attempted every page of its
\* range, NumPages of them, and returned.
C30_Witness ==
    /\ pc = "done" /\ ~reached_last_page /\ IsSome(token)
    /\ first_fetched = Max(resumed_from + 1, start_page)
    /\ iteration.page = end_page
    /\ end_page - first_fetched + 1 = NumPages

\* C31: a call of fetch_page_data changes the cache entry of its page only
\* with caching enabled and by storing the body of an HTTP 200 response that
\* parsed as JSON and has the item list; a call that ends on anything else,
\* or on a cache hit, leaves the entry alone, and every entry has the item
\* list.
C31_OnlySuccessPopulatesCache ==
    fetch_pc = "returned" =>
        /\ cache[UnitPage] # fetched.cache_before =>
              /\ use_cache /\ ~fetched.cache_hit /\ fetched.posts > 0
              /\ LET r == Last(fetched.delivered)
                 IN /\ r.exc = "none" /\ r.status = 200 /\ r.json_ok
                    /\ IsSome(r.body.realStateItemModel)
                    /\ cache[UnitPage] = Some(r.body)
              /\ IsSome(fetched.result)
        /\ \A p \in Pages : IsSome(cache[p]) => IsSome(Get(cache[p]).realStateItemModel)
\* An entry written by the second attempt of a call, the first having been
\* answered without the item list.
C31_Witness ==
    /\ fetch_pc = "returned" /\ use_cache
    /\ fetched.posts = 2
    /\ fetched.delivered[1].status = 200 /\ fetched.delivered[1].json_ok
    /\ IsNone(fetched.delivered[1].body.realStateItemModel)
    /\ cache[UnitPage] # fetched.cache_before
    /\ cache[UnitPage] = Some(fetched.delivered[2].body)

\* C32: for a non-empty item list is_last_page takes the first signal there
\* is: meta.isLastPage if present, whatever the page numbers; else
\* currentPage >= totalPages if both are present; else false.
C32_SignalsInOrder ==
    (oracle_pc = "done" /\ NonEmptyList) =>
        oracle_ret = IF HasMeta("isLastPage") THEN MetaOf("isLastPage")
                     ELSE IF HasPageNumbers
                     THEN MetaOf("currentPage") >= MetaOf("totalPages")
                     ELSE FALSE
\* The flag decided against the page numbers: false with the current page
\* at the total.
C32_Witness ==
    /\ oracle_pc = "done" /\ NonEmptyList
    /\ HasMeta("isLastPage") /\ MetaOf("isLastPage") = FALSE
    /\ HasPageNumbers /\ MetaOf("currentPage") >= MetaOf("totalPages")
    /\ oracle_ret = FALSE

\* C33: a page whose fetch returned a well-formed response with an empty item
\* list is not added to the failed-pages set by that pass of the loop, nor
\* listed in a failed-pages document the pass writes.
EmptyItems(call) == IsSome(call.result) /\ Len(Get(call.result)) = 0
C33_EmptyPageNotFailed ==
    [][(Passed /\ ~Broke(iteration') /\ EmptyItems(Last(iteration'.calls)))
       => /\ current_page \notin failed_pages'
          /\ failed_file' # failed_file
                => current_page \notin LoadFailedPages(failed_file')]_vars

\* C34: a page listed in the failed-pages document stays listed after every
\* write of that document by a run, unless the run has fetched items of that
\* page.
Refetched(p, items) == \E i \in 1 .. Len(items) : PageOf(items[i]) = p
C34_FailedLedgerSurvivesResume ==
    [][failed_file' # failed_file =>
        \A p \in LoadFailedPages(failed_file) :
            p \in LoadFailedPages(failed_file') \/ Refetched(p, run_items')]_vars

\* C35: when a run writes a checkpoint c, every page from the first page the
\* run attempted up to c either has the items the run fetched from it in the
\* data document or is listed in the failed-pages document, both as they
\* stand after that save.
ItemsSaved(p) ==
    /\ Refetched(p, run_items)
    /\ \A i \in 1 .. Len(run_items) :
          PageOf(run_items[i]) = p => InData(run_items[i], data_file)
C35_NoPageDropped ==
    [][(pc \in {"loop", "final"} /\ checkpoint_file' # checkpoint_file) =>
        \A p \in first_fetched' .. OnDisk(checkpoint_file') :
            ItemsSaved(p)' \/ p \in LoadFailedPages(failed_file')]_vars
\* A checkpoint covers a failed page and, after it, a page with items.
C35_Witness ==
    /\ pc \in {"loop", "final", "done"}
    /\ first_fetched # 0 /\ iteration.page > first_fetched
    /\ OnDisk(checkpoint_file) = iteration.page
    /\ first_fetched \in LoadFailedPages(failed_file)
    /\ ItemsSaved(iteration.page)

\* C36: while the page loop runs and when it has ended, the accumulated list
\* is the records of the data document followed by the batch (a missing
\* document counting as empty); once scrape_properties is over, final save
\* taken or skipped, the data document holds exactly the accumulated list.
Records == IF data_file = <<>> THEN <<>> ELSE data_file[1]
C36_BatchIsUnsavedTail ==
    /\ pc \in {"loop", "final"} => all_properties = Records \o current_batch
    /\ pc = "done" => all_properties = Records
\* A run that fetched records is over and skipped its final save.
C36_Witness ==
    /\ pc = "done" /\ current_batch = <<>>
    /\ resumed_from > 0 /\ run_items # <<>>
    /\ Len(all_properties) > Len(run_items)
    /\ data_file = <<all_properties>>

\* C37: when the loop was left by break on page p (the token refresh gave no
\* token), p is not in the failed-pages set, the checkpoint on disk is below
\* p, and once the call is over the page a run with the same start_page
\* starts on, given the checkpoint left on disk, is p.
C37_AbortPageRetriedFirst ==
    (pc \in {"final", "done"} /\ iteration.page # 0 /\ Broke(iteration)) =>
        /\ iteration.page \notin failed_pages
        /\ OnDisk(checkpoint_file) < iteration.page
        /\ pc = "done" =>
              ResumePage(LoadCheckpoint(checkpoint_file), start_page) = iteration.page

\* C38: under a fair lock every call of wait() returns; the lock is held
\* exactly by a caller between its acquisition and its return, so a caller
\* that has returned holds nothing; and a sleep started inside wait() ends
\* no later than one min_interval after the last grant, at most one
\* min_interval ahead.
C38_WaitReturns ==
    /\ \A c \in Callers : (caller_pc[c] # "out") ~> (caller_pc[c] = "out")
    /\ [](\A c \in Callers :
            /\ lock = c <=> c \in InCriticalSection
            /\ caller_pc[c] = "sleeping" =>
                  /\ sleep_until[c] <= last_request + interval
                  /\ sleep_until[c] - now <= interval)
\* A caller is blocked on the lock while the holder sleeps, after a grant.
C38_Witness ==
    /\ Len(grants) >= 1
    /\ \E c, d \in Callers :
          /\ caller_pc[c] = "waiting"
          /\ caller_pc[d] = "sleeping" /\ sleep_until[d] > now /\ lock = d

\* C39: no sweep of workers that start together raises, and once every
\* sweep has returned no expired entry is left in the directory.
C39_ConcurrentSweepsSafe ==
    /\ \A w \in Sweepers : sweeps[w].pc # "raised"
    /\ (\A w \in Sweepers : sweeps[w].pc = "done") =>
          \A f \in SweepFiles :
              IsSome(sweep_dir[f]) => ~Expired(sweep_clock - Get(sweep_dir[f]))

====
